---------------------------- MODULE Spec2Model ----------------------------
(***************************************************************************)
(* Review scheduling of the flash-card bot: the two scheduling algorithms  *)
(* (SM-2 and the customizable variant), the algorithm factory, the review  *)
(* and flash-card repositories (as the SQL statements they execute) and    *)
(* the spaced-repetition service (GetDueCards, ProcessReview) run by       *)
(* concurrently started update handlers.                                   *)
(*                                                                         *)
(* Numbers.  Ease factors and interval modifiers are float64 in the code;  *)
(* every value the code produces from its defaults is a multiple of 0.05,  *)
(* so they are modelled exactly as integers in hundredths (2.5 is 250).    *)
(* math.Round is round-half-away-from-zero, int(float) truncates toward    *)
(* zero.  Time is counted in days: time.Now() is the variable now, and     *)
(* AddDate(0, 0, n) adds n.  The zero time.Time is ZeroTime.               *)
(***************************************************************************)
EXTENDS Integers, Sequences, FiniteSets, TLC

\* ---------------------------------------------------------------- bounds
MaxLimit == 2
MaxNow == 2
MaxOps == 2
MaxFailures == 1
MaxCalls == 3
MaxInitInterval == 3
MaxInitRepetitions == 3

\* ------------------------------------------------------ program constants
QualityAgain == 0
QualityHard == 1
QualityGood == 2
QualityEasy == 3

AlgorithmTypeSM2 == "sm2"
AlgorithmTypeCustom == "custom"

ZeroTime == 0

Qualities == {QualityAgain, QualityHard, QualityGood, QualityEasy}

\* ------------------------------------------------------------ arithmetic
\* math.Round of n/100: nearest integer, halves away from zero
Round(n) == IF n >= 0 THEN (n + 50) \div 100 ELSE -((50 - n) \div 100)

\* int(f) of f = n/100: truncation toward zero
Trunc(n) == IF n >= 0 THEN n \div 100 ELSE -((-n) \div 100)

\* Go map lookup: the zero value for a key that is not in the map
MapGet(m, k) == IF k \in DOMAIN m THEN m[k] ELSE 0

\* ------------------------------------------------------------ algorithms
DefaultEaseFactorAdjustments ==
    (QualityAgain :> -30) @@ (QualityHard :> -15) @@
    (QualityGood :> 0) @@ (QualityEasy :> 15)

NewSM2Algorithm ==
    [type |-> AlgorithmTypeSM2,
     MinEaseFactor |-> 130,
     DefaultEaseFactor |-> 250,
     EaseFactorAdjustments |-> DefaultEaseFactorAdjustments]

NewCustomAlgorithm ==
    [type |-> AlgorithmTypeCustom,
     MinEaseFactor |-> 130,
     DefaultEaseFactor |-> 250,
     EaseFactorAdjustments |-> DefaultEaseFactorAdjustments,
     InitialIntervals |-> <<1, 3, 7>>,
     IntervalModifiers |-> (QualityAgain :> 0) @@ (QualityHard :> 80) @@
                           (QualityGood :> 100) @@ (QualityEasy :> 120),
     MaxInterval |-> 365]

\* variant: the adjusted ease factor without the floor
NewEaseFactorNoFloor(a, review, quality) ==
    LET easeFactor == IF review.EaseFactor = 0 THEN a.DefaultEaseFactor
                      ELSE review.EaseFactor
    IN  easeFactor + MapGet(a.EaseFactorAdjustments, quality)

\* variant: a zero ease factor is not replaced by the default
NewEaseFactorNoDefault(a, review, quality) ==
    LET adjusted == review.EaseFactor + MapGet(a.EaseFactorAdjustments, quality)
    IN  IF adjusted < a.MinEaseFactor THEN a.MinEaseFactor ELSE adjusted

\* the ease factor both variants compute first (sm2.go 39-49, custom 56-66)
NewEaseFactor(a, review, quality) ==
    LET easeFactor == IF review.EaseFactor = 0 THEN a.DefaultEaseFactor
                      ELSE review.EaseFactor
        adjusted == easeFactor + MapGet(a.EaseFactorAdjustments, quality)
    IN  IF adjusted < a.MinEaseFactor THEN a.MinEaseFactor ELSE adjusted

\* variant: the product rounded to the nearest day instead of truncated
SM2AdjustRounded(interval, quality) ==
    IF quality = QualityHard THEN Round(interval * 80)
    ELSE IF quality = QualityEasy THEN Round(interval * 120)
    ELSE interval

\* the multiplication int(float64(interval) * 0.8) / * 1.2 of the SM-2 switch
SM2Adjust(interval, quality) ==
    IF quality = QualityHard THEN Trunc(interval * 80)
    ELSE IF quality = QualityEasy THEN Trunc(interval * 120)
    ELSE interval

\* variant: no minimum interval
SM2NoFloor(interval) == interval

SM2Floor(interval) == IF interval < 1 THEN 1 ELSE interval

\* variant: the second repetition after six days, as in the original SM-2
SM2CalculateNextReviewSixDays(a, review, quality, t) ==
    LET easeFactor == NewEaseFactor(a, review, quality)
        repetitions == IF quality = QualityAgain THEN 0
                       ELSE review.Repetitions + 1
        base == IF repetitions = 1 THEN 1
                ELSE IF repetitions = 2 THEN 6
                ELSE Round(review.Interval * easeFactor)
        interval == IF quality = QualityAgain THEN 1
                    ELSE SM2Floor(SM2Adjust(base, quality))
    IN  [nextReview |-> t + interval,
         interval |-> interval,
         easeFactor |-> easeFactor]

SM2CalculateNextReview(a, review, quality, t) ==
    LET easeFactor == NewEaseFactor(a, review, quality)
        repetitions == IF quality = QualityAgain THEN 0
                       ELSE review.Repetitions + 1
        base == IF repetitions = 1 THEN 1
                ELSE IF repetitions = 2 THEN 3
                ELSE Round(review.Interval * easeFactor)
        interval == IF quality = QualityAgain THEN 1
                    ELSE SM2Floor(SM2Adjust(base, quality))
    IN  [nextReview |-> t + interval,
         interval |-> interval,
         easeFactor |-> easeFactor]

CustomFloor(interval) == IF interval < 1 THEN 1 ELSE interval

CustomCap(a, interval) ==
    IF interval > a.MaxInterval THEN a.MaxInterval ELSE interval

\* variant: the MaxInterval cap applied after the if/else, to Again as well
CustomCalculateNextReviewCapAll(a, review, quality, t) ==
    LET easeFactor == NewEaseFactor(a, review, quality)
        repetitions == IF quality = QualityAgain THEN 0
                       ELSE review.Repetitions + 1
        base == IF repetitions <= Len(a.InitialIntervals)
                THEN a.InitialIntervals[repetitions]
                ELSE Round(review.Interval * easeFactor)
        modified == Trunc(base * MapGet(a.IntervalModifiers, quality))
        interval == CustomCap(a, IF quality = QualityAgain THEN 1
                                 ELSE CustomFloor(modified))
    IN  [nextReview |-> t + interval,
         interval |-> interval,
         easeFactor |-> easeFactor]

CustomCalculateNextReview(a, review, quality, t) ==
    LET easeFactor == NewEaseFactor(a, review, quality)
        repetitions == IF quality = QualityAgain THEN 0
                       ELSE review.Repetitions + 1
        base == IF repetitions <= Len(a.InitialIntervals)
                THEN a.InitialIntervals[repetitions]
                ELSE Round(review.Interval * easeFactor)
        modified == Trunc(base * MapGet(a.IntervalModifiers, quality))
        interval == IF quality = QualityAgain THEN 1
                    ELSE CustomCap(a, CustomFloor(modified))
    IN  [nextReview |-> t + interval,
         interval |-> interval,
         easeFactor |-> easeFactor]

\* dispatch through the Algorithm interface
CalculateNextReview(a, review, quality, t) ==
    IF a.type = AlgorithmTypeSM2
    THEN SM2CalculateNextReview(a, review, quality, t)
    ELSE CustomCalculateNextReview(a, review, quality, t)


\* ------------------------------------------------------------- factory
ErrNil == "nil"
ErrInvalidParameter == "ErrInvalidParameter"

NoAlgorithm == [type |-> "none"]

\* a Go interface{} value: its dynamic type and the value
FloatV(x) == [kind |-> "float64", val |-> x]
IntV(x) == [kind |-> "int", val |-> x]
IntsV(x) == [kind |-> "[]int", val |-> x]

\* variant: the value stored without the type assertion
SetParameterAnyType(a, name, value) ==
    IF name = "min_ease_factor"
    THEN [err |-> ErrNil, algorithm |-> [a EXCEPT !.MinEaseFactor = value.val]]
    ELSE IF name = "default_ease_factor"
    THEN [err |-> ErrNil, algorithm |-> [a EXCEPT !.DefaultEaseFactor = value.val]]
    ELSE IF name = "max_interval"
    THEN [err |-> ErrNil, algorithm |-> [a EXCEPT !.MaxInterval = value.val]]
    ELSE IF name = "initial_intervals"
    THEN [err |-> ErrNil, algorithm |-> [a EXCEPT !.InitialIntervals = value.val]]
    ELSE [err |-> ErrInvalidParameter, algorithm |-> a]

SetParameter(a, name, value) ==
    IF name = "min_ease_factor" /\ value.kind = "float64"
    THEN [err |-> ErrNil, algorithm |-> [a EXCEPT !.MinEaseFactor = value.val]]
    ELSE IF name = "default_ease_factor" /\ value.kind = "float64"
    THEN [err |-> ErrNil, algorithm |-> [a EXCEPT !.DefaultEaseFactor = value.val]]
    ELSE IF name = "max_interval" /\ value.kind = "int"
    THEN [err |-> ErrNil, algorithm |-> [a EXCEPT !.MaxInterval = value.val]]
    ELSE IF name = "initial_intervals" /\ value.kind = "[]int"
    THEN [err |-> ErrNil, algorithm |-> [a EXCEPT !.InitialIntervals = value.val]]
    ELSE [err |-> ErrInvalidParameter, algorithm |-> a]

\* the loop of CreateAlgorithm over config.Parameters (a Go map: the order of
\* iteration is unspecified; each name sets its own field)
RECURSIVE ApplyParameters(_, _, _)
ApplyParameters(a, params, names) ==
    IF names = {} THEN [err |-> ErrNil, algorithm |-> a]
    ELSE LET name == CHOOSE n \in names : TRUE
             r == SetParameter(a, name, params[name])
         IN  IF r.err # ErrNil
             THEN [err |-> r.err, algorithm |-> NoAlgorithm]
             ELSE ApplyParameters(r.algorithm, params, names \ {name})

CreateAlgorithm(config) ==
    IF config.Type = AlgorithmTypeSM2
    THEN [err |-> ErrNil, algorithm |-> NewSM2Algorithm]
    ELSE IF config.Type = AlgorithmTypeCustom
    THEN ApplyParameters(NewCustomAlgorithm, config.Parameters,
                         DOMAIN config.Parameters)
    ELSE [err |-> ErrInvalidParameter, algorithm |-> NoAlgorithm]

\* ------------------------------------------------------------- reviews
\* variant: a new review due one day after its creation
NewReviewDueTomorrow(userID, flashCardID, t) ==
    [ID |-> 0,
     UserID |-> userID,
     FlashCardID |-> flashCardID,
     EaseFactor |-> 250,
     DueDate |-> t + 1,
     Interval |-> 0,
     Repetitions |-> 0,
     LastReviewed |-> ZeroTime]

\* models.NewReview at time t (the ID is assigned by the INSERT)
NewReview(userID, flashCardID, t) ==
    [ID |-> 0,
     UserID |-> userID,
     FlashCardID |-> flashCardID,
     EaseFactor |-> 250,
     DueDate |-> t,
     Interval |-> 0,
     Repetitions |-> 0,
     LastReviewed |-> ZeroTime]

\* the value ProcessReview assigns to review.Repetitions
NextRepetitions(review, quality) == review.Repetitions + 1

\* variant: the scheduler stores its repetition count in the record
ReviewAfterCalculateStored(a, review, quality) ==
    [review EXCEPT !.Repetitions = IF quality = QualityAgain THEN 0 ELSE @ + 1]

\* the record behind the pointer when CalculateNextReview has returned: both
\* variants copy review.Repetitions and review.EaseFactor to locals and assign
\* to the locals only
ReviewAfterCalculate(a, review, quality) == review

\* ProcessReview, lines 121-129: the scheduler's result assigned to the record
ApplyReview(a, review, quality, t) ==
    LET r == CalculateNextReview(a, review, quality, t)
        after == ReviewAfterCalculate(a, review, quality)
    IN  [after EXCEPT !.DueDate = r.nextReview,
                      !.Interval = r.interval,
                      !.EaseFactor = r.easeFactor,
                      !.Repetitions = NextRepetitions(after, quality),
                      !.LastReviewed = t]

\* -------------------------------------------------------------- inputs
\* parameter maps a configuration file can hold
ParameterMaps ==
    { <<>>,
      "min_ease_factor" :> FloatV(200),
      "default_ease_factor" :> FloatV(150),
      "max_interval" :> IntV(2),
      "max_interval" :> IntV(0),
      "max_interval" :> FloatV(30),
      "initial_intervals" :> IntsV(<<0, 2>>),
      "initial_intervals" :> IntsV(<<>>),
      ("max_interval" :> IntV(4)) @@ ("initial_intervals" :> IntsV(<<2, 5>>)),
      ("max_interval" :> IntV(4)) @@ ("algorithm" :> IntV(1)),
      "algorithm" :> IntV(1) }

AlgorithmConfigs ==
    { [Type |-> AlgorithmTypeSM2, Parameters |-> <<>>],
      [Type |-> AlgorithmTypeSM2, Parameters |-> "max_interval" :> FloatV(30)],
      [Type |-> "fsrs", Parameters |-> <<>>] }
    \cup { [Type |-> AlgorithmTypeCustom, Parameters |-> m] : m \in ParameterMaps }

InitEaseFactors == {0, 130, 250}

\* the flash_cards table of the handler runs: the rows the card services have
\* inserted
FlashCards ==
    { [ID |-> 1, CardBankID |-> 1, CreatedAt |-> 1],
      [ID |-> 2, CardBankID |-> 1, CreatedAt |-> 2] }

CardIDs == { c.ID : c \in FlashCards }
Banks == { c.CardBankID : c \in FlashCards }
Users == {1}
Procs == {1, 2}
Limits == 0..MaxLimit

\* the ratings the concurrent handlers of Spec pass (SpecRate and SpecCalc
\* pass all four)
ServiceQualities == {QualityAgain, QualityGood}

VARIABLES
    algErr,       \* the error CreateAlgorithm returned
    algorithm,    \* the algorithm the service was constructed with
    flashCards,   \* the flash_cards table (written by the card services only)
    rec,          \* scheduler runs: the review record under test
    out,          \* scheduler runs: the last call (quality, the quality of the
                  \* call before it, record before, result)
    calls,        \* scheduler runs: number of calls made
    reviews,      \* the reviews table: a set of rows
    nextID,       \* the next value of the reviews.id sequence
    now,          \* the clock, in days
    pc,           \* per handler goroutine: the statement it executes next
    loc,          \* per handler goroutine: arguments, locals and result
    failures,     \* store calls that have failed with an I/O error
    started,      \* service calls made
    hist,         \* per (user, card): the ratings of the ProcessReview calls
                  \* whose Update succeeded, in the order of the updates
    userStates,   \* Bot.userStates: per user, the UserState of the map
    reviewState,  \* the ReviewState that UserState.ReviewState points to
    cb,           \* per handler goroutine: its place in handleReviewCallback
                  \* and its locals
    rated         \* the cards for which the session's ProcessReview calls
                  \* returned nil, in the order of the returns

calcVars == <<rec, out, calls>>
algVars == <<algErr, algorithm, flashCards>>
svcVars == <<reviews, nextID, now, pc, loc, failures, started, hist>>
botVars == <<userStates, reviewState, cb, rated>>
vars == <<algVars, calcVars, svcVars, botVars>>

\* no entry in the userStates map (the zero UserState is what a read returns)
NoUserState == [State |-> "", ReviewState |-> "nil"]

NoReviewState == [Cards |-> <<>>, CurrentCard |-> 0, IsFlipped |-> FALSE, BankID |-> 0]

\* a goroutine that runs no callback handler
CbIdle == [at |-> "idle", userID |-> 0, action |-> "", rating |-> 0,
           state |-> NoUserState, index |-> 0, cardID |-> 0]

\* no review session and no callback under way
NoSession ==
    /\ userStates = [u \in Users |-> NoUserState]
    /\ reviewState = NoReviewState
    /\ cb = [p \in Procs |-> CbIdle]
    /\ rated = <<>>

NoCall == [quality |-> -1, prev |-> -1, before |-> NewReview(1, 1, 1),
           interval |-> 0, easeFactor |-> 0, nextReview |-> 0]


\* ------------------------------------------------------------ the store
ErrNotFound == "ErrNotFound"
ErrIO == "io error"
ErrUnique == "unique_violation"

NoReview == NewReview(0, 0, 0)

\* a goroutine's arguments, locals and result; log is the last message the call
\* has written with logger.Error
Idle == [op |-> "none", userID |-> 0, bankID |-> 0, limit |-> 0, cardID |-> 0,
         quality |-> 0, reviews |-> <<>>, newCards |-> <<>>, dueCards |-> <<>>,
         i |-> 0, review |-> NoReview, getErr |-> ErrNil,
         cards |-> <<>>, err |-> ErrNil, log |-> ""]

InitStore ==
    /\ reviews = {}
    /\ nextID = 1
    /\ now = 1
    /\ pc = [p \in Procs |-> "idle"]
    /\ loc = [p \in Procs |-> Idle]
    /\ failures = 0
    /\ started = 0
    /\ hist = [k \in Users \X CardIDs |-> <<>>]

\* a store call may fail with an I/O error
MayFail == failures < MaxFailures

\* sequences of n distinct elements of S
Arrangements(S, n) ==
    { s \in [1..n -> S] : \A a, b \in 1..n : a # b => s[a] # s[b] }

Min(a, b) == IF a < b THEN a ELSE b

\* ORDER BY key ASC LIMIT n over the rows S: every list SQL may return (rows
\* with equal keys come in any order): a row with the least key, then the list
\* of the remaining rows
RECURSIVE OrderByLimit(_, _, _)
OrderByLimit(S, key, n) ==
    IF n <= 0 \/ S = {} THEN { <<>> }
    ELSE UNION { { <<r>> \o t : t \in OrderByLimit(S \ {r}, key, n - 1) } :
                 r \in { x \in S : \A y \in S : key[x] <= key[y] } }

CardOf(id) == CHOOSE c \in flashCards : c.ID = id

\* variant: due only after the due date has passed
DueRowsStrict(rows, userID, bankID, dueDate) ==
    { r \in rows : /\ r.UserID = userID
                   /\ \E fc \in flashCards : /\ r.FlashCardID = fc.ID
                                             /\ fc.CardBankID = bankID
                   /\ r.DueDate < dueDate }

\* reviewRepository.GetDueReviews: the rows the query selects
DueRows(rows, userID, bankID, dueDate) ==
    { r \in rows : /\ r.UserID = userID
                   /\ \E fc \in flashCards : /\ r.FlashCardID = fc.ID
                                             /\ fc.CardBankID = bankID
                   /\ r.DueDate <= dueDate }

DueDateKey(r) == r.DueDate

\* variant: the query without ORDER BY
GetDueReviewsUnordered(rows, userID, bankID, dueDate, limit) ==
    LET S == DueRows(rows, userID, bankID, dueDate)
    IN  Arrangements(S, Min(limit, Cardinality(S)))

GetDueReviews(rows, userID, bankID, dueDate, limit) ==
    LET S == DueRows(rows, userID, bankID, dueDate)
    IN  OrderByLimit(S, [r \in S |-> DueDateKey(r)], limit)

\* variant: the join without the "r.id IS NULL" filter
NewRowsAnyCard(rows, userID, bankID) ==
    { fc \in flashCards : fc.CardBankID = bankID }

\* flashCardRepository.GetNewCards: cards of the bank without a review row of
\* the user, newest first
NewRows(rows, userID, bankID) ==
    { fc \in flashCards :
        /\ fc.CardBankID = bankID
        /\ ~ \E r \in rows : r.FlashCardID = fc.ID /\ r.UserID = userID }

CreatedAtDesc(fc) == -fc.CreatedAt

\* variant: the query without LIMIT
GetNewCardsNoLimit(rows, userID, bankID, limit) ==
    LET S == NewRows(rows, userID, bankID)
    IN  OrderByLimit(S, [fc \in S |-> CreatedAtDesc(fc)], Cardinality(flashCards))

GetNewCards(rows, userID, bankID, limit) ==
    LET S == NewRows(rows, userID, bankID)
    IN  OrderByLimit(S, [fc \in S |-> CreatedAtDesc(fc)], limit)

\* variant: the table without the UNIQUE constraint
NoUniqueConstraint(rows, review) == FALSE

\* the UNIQUE(user_id, flash_card_id) constraint of the reviews table
Conflicts(rows, review) ==
    \E r \in rows : r.UserID = review.UserID /\ r.FlashCardID = review.FlashCardID

\* reviewRepository.Create: INSERT ... RETURNING id
Create(rows, review, id) ==
    IF Conflicts(rows, review)
    THEN [err |-> ErrUnique, rows |-> rows, review |-> review]
    ELSE [err |-> ErrNil,
          rows |-> rows \cup {[review EXCEPT !.ID = id]},
          review |-> [review EXCEPT !.ID = id]]

\* reviewRepository.GetByUserAndCard
GetByUserAndCard(rows, userID, cardID) ==
    IF \E r \in rows : r.UserID = userID /\ r.FlashCardID = cardID
    THEN [err |-> ErrNil,
          review |-> CHOOSE r \in rows : r.UserID = userID /\ r.FlashCardID = cardID]
    ELSE [err |-> ErrNotFound, review |-> NoReview]

\* reviewRepository.Update: UPDATE ... WHERE id = review.ID
Update(rows, review) ==
    { IF r.ID = review.ID
      THEN [r EXCEPT !.EaseFactor = review.EaseFactor,
                     !.DueDate = review.DueDate,
                     !.Interval = review.Interval,
                     !.Repetitions = review.Repetitions,
                     !.LastReviewed = review.LastReviewed]
      ELSE r : r \in rows }

\* ------------------------------------------------------------ GetDueCards
\* variant: the limit passed on without the due reviews subtracted
NewCardsLimitWhole(limit, due) == limit

\* line 54
NewCardsLimit(limit, due) == limit - Len(due)

\* variant: the new cards in front
CombineNewFirst(dueCards, newCards) == newCards \o dueCards

\* lines 83 and 97: what GetDueCards returns
Combine(dueCards, newCards) == dueCards \o newCards

Set(p, l) == loc' = [loc EXCEPT ![p] = l]
Goto(p, label) == pc' = [pc EXCEPT ![p] = label]

\* the two loops over the due reviews (lines 72-80 and 87-95) start, or, with
\* no due review, GetDueCards returns
ToDueLoop(p, l) ==
    IF Len(l.reviews) = 0
    THEN /\ Set(p, [l EXCEPT !.cards = Combine(<<>>, l.newCards), !.err = ErrNil])
         /\ Goto(p, "done")
    ELSE /\ Set(p, [l EXCEPT !.i = 1, !.dueCards = <<>>])
         /\ Goto(p, "GetByID")

\* a handler goroutine is free to run the next update
Free(p) ==
    /\ pc[p] \in {"idle", "done"}
    /\ started < MaxOps
    /\ \A q \in Procs : q < p => pc[q] # "idle"

GDC_Call(p, userID, bankID, limit) ==
    /\ Free(p)
    /\ started' = started + 1
    /\ Set(p, [Idle EXCEPT !.op = "GetDueCards", !.userID = userID,
                           !.bankID = bankID, !.limit = limit])
    /\ Goto(p, "GetDueReviews")
    /\ UNCHANGED <<reviews, nextID, now, failures, hist, algVars, calcVars, botVars>>

\* variant: the unseen cards queried whatever the number of due reviews
GDC_GetDueReviewsThenNew(p) ==
    /\ pc[p] = "GetDueReviews"
    /\ LET l == loc[p] IN
       \E rs \in GetDueReviews(reviews, l.userID, l.bankID, now, l.limit) :
          Set(p, [l EXCEPT !.reviews = rs]) /\ Goto(p, "GetNewCards")
    /\ UNCHANGED <<reviews, nextID, now, failures, started, hist, algVars, calcVars, botVars>>

GDC_GetDueReviews(p) ==
    /\ pc[p] = "GetDueReviews"
    /\ LET l == loc[p] IN
       \E rs \in GetDueReviews(reviews, l.userID, l.bankID, now, l.limit) :
          IF Len(rs) < l.limit
          THEN Set(p, [l EXCEPT !.reviews = rs]) /\ Goto(p, "GetNewCards")
          ELSE ToDueLoop(p, [l EXCEPT !.reviews = rs])
    /\ UNCHANGED <<reviews, nextID, now, failures, started, hist, algVars, calcVars, botVars>>

\* variant: a failed due query taken for an empty result
GDC_GetDueReviewsFailsSwallowed(p) ==
    /\ pc[p] = "GetDueReviews"
    /\ MayFail
    /\ failures' = failures + 1
    /\ Set(p, [loc[p] EXCEPT !.log = "Failed to get due reviews"])
    /\ Goto(p, "GetNewCards")
    /\ UNCHANGED <<reviews, nextID, now, started, hist, algVars, calcVars, botVars>>

GDC_GetDueReviewsFails(p) ==
    /\ pc[p] = "GetDueReviews"
    /\ MayFail
    /\ failures' = failures + 1
    /\ Set(p, [loc[p] EXCEPT !.err = ErrIO, !.log = "Failed to get due reviews"])
    /\ Goto(p, "done")
    /\ UNCHANGED <<reviews, nextID, now, started, hist, algVars, calcVars, botVars>>

GDC_GetNewCards(p) ==
    /\ pc[p] = "GetNewCards"
    /\ LET l == loc[p] IN
       \E cs \in GetNewCards(reviews, l.userID, l.bankID,
                             NewCardsLimit(l.limit, l.reviews)) :
          IF Len(cs) = 0
          THEN ToDueLoop(p, [l EXCEPT !.newCards = cs])
          ELSE Set(p, [l EXCEPT !.newCards = cs, !.i = 1]) /\ Goto(p, "Create")
    /\ UNCHANGED <<reviews, nextID, now, failures, started, hist, algVars, calcVars, botVars>>

GDC_GetNewCardsFails(p) ==
    /\ pc[p] = "GetNewCards"
    /\ MayFail
    /\ failures' = failures + 1
    /\ Set(p, [loc[p] EXCEPT !.err = ErrIO, !.log = "Failed to get new cards"])
    /\ Goto(p, "done")
    /\ UNCHANGED <<reviews, nextID, now, started, hist, algVars, calcVars, botVars>>

\* after the i-th iteration of the loop of lines 62-69
AfterCreate(p, l) ==
    IF l.i < Len(l.newCards)
    THEN Set(p, [l EXCEPT !.i = l.i + 1]) /\ Goto(p, "Create")
    ELSE ToDueLoop(p, l)

GDC_Create(p) ==
    /\ pc[p] = "Create"
    /\ LET l == loc[p]
           c == Create(reviews, NewReview(l.userID, l.newCards[l.i].ID, now), nextID)
       IN  /\ reviews' = c.rows
           /\ nextID' = IF c.err = ErrNil THEN nextID + 1 ELSE nextID
           /\ AfterCreate(p, IF c.err = ErrNil THEN l
                              ELSE [l EXCEPT !.log = "Failed to create review for new card"])
    /\ UNCHANGED <<now, failures, started, hist, algVars, calcVars, botVars>>

GDC_CreateFails(p) ==
    /\ pc[p] = "Create"
    /\ MayFail
    /\ failures' = failures + 1
    /\ AfterCreate(p, [loc[p] EXCEPT !.log = "Failed to create review for new card"])
    /\ UNCHANGED <<reviews, nextID, now, started, hist, algVars, calcVars, botVars>>

\* the loop over the due reviews (lines 72-80, 87-95): flashcardRepo.GetByID
\* for each review in turn; the lookups at the positions in failed return an
\* error and are skipped
\* variant: the loop left at the first failed lookup
RECURSIVE DueCardsUntilFailure(_, _, _)
DueCardsUntilFailure(rs, failed, i) ==
    IF i > Len(rs) \/ i \in failed THEN <<>>
    ELSE <<CardOf(rs[i].FlashCardID)>> \o DueCardsUntilFailure(rs, failed, i + 1)

RECURSIVE DueCards(_, _, _)
DueCards(rs, failed, i) ==
    IF i > Len(rs) THEN <<>>
    ELSE (IF i \in failed THEN <<>> ELSE <<CardOf(rs[i].FlashCardID)>>)
         \o DueCards(rs, failed, i + 1)

\* the flash_cards rows do not change, so the lookups of one loop are one step
GDC_GetByID(p) ==
    /\ pc[p] = "GetByID"
    /\ LET l == loc[p] IN
       \E failed \in SUBSET (1..Len(l.reviews)) :
          /\ failures + Cardinality(failed) <= MaxFailures
          /\ failures' = failures + Cardinality(failed)
          /\ Set(p, [l EXCEPT !.dueCards = DueCards(l.reviews, failed, 1),
                               !.cards = Combine(DueCards(l.reviews, failed, 1),
                                                 l.newCards),
                               !.err = ErrNil,
                               !.log = IF failed = {} THEN l.log
                                       ELSE "Failed to get card for review"])
          /\ Goto(p, "done")
    /\ UNCHANGED <<reviews, nextID, now, started, hist, algVars, calcVars, botVars>>

\* ---------------------------------------------------------- ProcessReview
\* lines 121-129 run by the goroutine right after the fetch or the insert, on
\* its own copy of the row (no other goroutine sees it before Update)
Calculate(review, quality, t) == ApplyReview(algorithm, review, quality, t)

PR_Call(p, userID, cardID, quality) ==
    /\ Free(p)
    /\ started' = started + 1
    /\ Set(p, [Idle EXCEPT !.op = "ProcessReview", !.userID = userID,
                           !.cardID = cardID, !.quality = quality])
    /\ Goto(p, "GetByUserAndCard")
    /\ UNCHANGED <<reviews, nextID, now, failures, hist, algVars, calcVars, botVars>>

PR_GetByUserAndCard(p) ==
    /\ pc[p] = "GetByUserAndCard"
    /\ LET l == loc[p]
           g == GetByUserAndCard(reviews, l.userID, l.cardID)
       IN  /\ Set(p, [l EXCEPT !.getErr = g.err,
                                !.review = IF g.err = ErrNil
                                           THEN Calculate(g.review, l.quality, now)
                                           ELSE g.review])
           /\ Goto(p, IF g.err = ErrNil THEN "Update" ELSE "CreateReview")
    /\ UNCHANGED <<reviews, nextID, now, failures, started, hist, algVars, calcVars, botVars>>

\* any error of the lookup takes the branch of line 111
PR_GetByUserAndCardFails(p) ==
    /\ pc[p] = "GetByUserAndCard"
    /\ MayFail
    /\ failures' = failures + 1
    /\ Set(p, [loc[p] EXCEPT !.getErr = ErrIO])
    /\ Goto(p, "CreateReview")
    /\ UNCHANGED <<reviews, nextID, now, started, hist, algVars, calcVars, botVars>>

PR_Create(p) ==
    /\ pc[p] = "CreateReview"
    /\ LET l == loc[p]
           c == Create(reviews, NewReview(l.userID, l.cardID, now), nextID)
       IN  /\ reviews' = c.rows
           /\ nextID' = IF c.err = ErrNil THEN nextID + 1 ELSE nextID
           /\ Set(p, [l EXCEPT !.err = c.err,
                                !.review = IF c.err = ErrNil
                                           THEN Calculate(c.review, l.quality, now)
                                           ELSE c.review,
                                !.log = IF c.err = ErrNil THEN l.log
                                        ELSE "Failed to create review"])
           /\ Goto(p, IF c.err = ErrNil THEN "Update" ELSE "done")
    /\ UNCHANGED <<now, failures, started, hist, algVars, calcVars, botVars>>

PR_CreateFails(p) ==
    /\ pc[p] = "CreateReview"
    /\ MayFail
    /\ failures' = failures + 1
    /\ Set(p, [loc[p] EXCEPT !.review = NewReview(loc[p].userID, loc[p].cardID, now),
                             !.err = ErrIO, !.log = "Failed to create review"])
    /\ Goto(p, "done")
    /\ UNCHANGED <<reviews, nextID, now, started, hist, algVars, calcVars, botVars>>

PR_Update(p) ==
    /\ pc[p] = "Update"
    /\ reviews' = Update(reviews, loc[p].review)
    /\ hist' = [hist EXCEPT ![<<loc[p].userID, loc[p].cardID>>] =
                   Append(@, loc[p].quality)]
    /\ Set(p, [loc[p] EXCEPT !.err = ErrNil])
    /\ Goto(p, "done")
    /\ UNCHANGED <<nextID, now, failures, started, algVars, calcVars, botVars>>

PR_UpdateFails(p) ==
    /\ pc[p] = "Update"
    /\ MayFail
    /\ failures' = failures + 1
    /\ Set(p, [loc[p] EXCEPT !.err = ErrIO, !.log = "Failed to update review"])
    /\ Goto(p, "done")
    /\ UNCHANGED <<reviews, nextID, now, started, hist, algVars, calcVars, botVars>>

\* a day passes
Tick ==
    /\ now < MaxNow
    /\ now' = now + 1
    /\ UNCHANGED <<reviews, nextID, pc, loc, failures, started, hist, algVars, calcVars, botVars>>

\* main constructs the service with NewSM2Algorithm()
Init ==
    /\ algErr = ErrNil
    /\ algorithm = NewSM2Algorithm
    /\ flashCards = FlashCards
    /\ rec = NoReview
    /\ out = NoCall
    /\ calls = 0
    /\ NoSession
    /\ InitStore

Next ==
    \/ \E p \in Procs, u \in Users, b \in Banks, n \in Limits : GDC_Call(p, u, b, n)
    \/ \E p \in Procs : GDC_GetDueReviews(p)
    \/ \E p \in Procs : GDC_GetDueReviewsFails(p)
    \/ \E p \in Procs : GDC_GetNewCards(p)
    \/ \E p \in Procs : GDC_GetNewCardsFails(p)
    \/ \E p \in Procs : GDC_Create(p)
    \/ \E p \in Procs : GDC_CreateFails(p)
    \/ \E p \in Procs : GDC_GetByID(p)
    \/ \E p \in Procs, u \in Users, c \in CardIDs, q \in ServiceQualities :
          PR_Call(p, u, c, q)
    \/ \E p \in Procs : PR_GetByUserAndCard(p)
    \/ \E p \in Procs : PR_GetByUserAndCardFails(p)
    \/ \E p \in Procs : PR_Create(p)
    \/ \E p \in Procs : PR_CreateFails(p)
    \/ \E p \in Procs : PR_Update(p)
    \/ \E p \in Procs : PR_UpdateFails(p)
    \/ Tick

Spec == Init /\ [][Next]_vars

\* ------------------------------------------------ rating handlers (SpecRate)
\* rating callbacks only, with all four ratings, on a database in which an
\* earlier GetDueCards(1, 1, 1) has introduced the newest card
InitRate ==
    /\ algErr = ErrNil
    /\ algorithm = NewSM2Algorithm
    /\ flashCards = FlashCards
    /\ rec = NoReview
    /\ out = NoCall
    /\ calls = 0
    /\ NoSession
    /\ reviews = Create({}, NewReview(1, 2, 1), 1).rows
    /\ nextID = 2
    /\ now = 1
    /\ pc = [p \in Procs |-> "idle"]
    /\ loc = [p \in Procs |-> Idle]
    /\ failures = 0
    /\ started = 0
    /\ hist = [k \in Users \X CardIDs |-> <<>>]

NextRate ==
    \/ \E p \in Procs, u \in Users, c \in CardIDs, q \in Qualities :
          PR_Call(p, u, c, q)
    \/ \E p \in Procs : PR_GetByUserAndCard(p)
    \/ \E p \in Procs : PR_GetByUserAndCardFails(p)
    \/ \E p \in Procs : PR_Create(p)
    \/ \E p \in Procs : PR_CreateFails(p)
    \/ \E p \in Procs : PR_Update(p)
    \/ \E p \in Procs : PR_UpdateFails(p)

SpecRate == InitRate /\ [][NextRate]_vars

\* ------------------------------------------------ any rating (SpecRating)
\* the integers a callback's data can hold (strconv.Atoi of args[1]), and the
\* quality argument of the service's exported ProcessReview
Ratings == Qualities \cup {-1, 4}

\* handleReviewCallback, action "rate": the rating is parsed and checked before
\* the service is called
RateCallback(p, userID, cardID, rating) ==
    IF rating < 0 \/ rating > 3
    THEN /\ Free(p)
         /\ started' = started + 1
         /\ Set(p, [Idle EXCEPT !.op = "handleReviewCallback", !.userID = userID,
                                !.cardID = cardID, !.quality = rating,
                                !.log = "Invalid rating value"])
         /\ Goto(p, "done")
         /\ UNCHANGED <<reviews, nextID, now, failures, hist, algVars, calcVars, botVars>>
    ELSE PR_Call(p, userID, cardID, rating)

\* rating callbacks, and ProcessReview called through the service interface
\* with any quality, on the database of InitRate
NextRating ==
    \/ \E p \in Procs, u \in Users, c \in CardIDs, r \in Ratings :
          RateCallback(p, u, c, r)
    \/ \E p \in Procs, u \in Users, c \in CardIDs, q \in Ratings :
          PR_Call(p, u, c, q)
    \/ \E p \in Procs : PR_GetByUserAndCard(p)
    \/ \E p \in Procs : PR_Create(p)
    \/ \E p \in Procs : PR_Update(p)

SpecRating == InitRate /\ [][NextRating]_vars

\* ------------------------------------------------ one session (SpecSession)
\* the card table of a larger bank: cards 1..24 in bank 1, card 25 in bank 2
SessionCards ==
    { [ID |-> i, CardBankID |-> IF i <= 24 THEN 1 ELSE 2, CreatedAt |-> i] :
        i \in 1..25 }

\* the rows earlier sessions have left: card c introduced on day due[c] and
\* never rated (rows 1..3), card 24 introduced on day 1 and rated Good on day 3
SessionReviews(cards, due) ==
    LET order == CHOOSE f \in [1..Cardinality(cards) -> cards] :
                    \A a, b \in 1..Cardinality(cards) : a < b => f[a] < f[b]
    IN  { [NewReview(1, order[k], due[order[k]]) EXCEPT !.ID = k] :
            k \in 1..Cardinality(cards) }
        \cup { [ApplyReview(NewSM2Algorithm, NewReview(1, 24, 1), QualityGood, 3)
                  EXCEPT !.ID = Cardinality(cards) + 1] }

\* day 3 of a user with three overdue reviews, one review not yet due and 20
\* unseen cards in bank 1
InitSession ==
    /\ algErr = ErrNil
    /\ algorithm = NewSM2Algorithm
    /\ flashCards = SessionCards
    /\ rec = NoReview
    /\ out = NoCall
    /\ calls = 0
    /\ NoSession
    /\ \E cards \in { S \in SUBSET (1..4) : Cardinality(S) = 3 } :
       \E due \in [cards -> 1..3] :
          reviews = SessionReviews(cards, due)
    /\ nextID = 5
    /\ now = 3
    /\ pc = [p \in Procs |-> "idle"]
    /\ loc = [p \in Procs |-> Idle]
    /\ failures = 0
    /\ started = 0
    /\ hist = [k \in Users \X CardIDs |-> <<>>]

\* handleReviewCommand: one /review command of the user, with the default
\* session size of 10 cards
ReviewCommand ==
    /\ started = 0
    /\ GDC_Call(1, 1, 1, 10)

NextSession ==
    \/ ReviewCommand
    \/ GDC_GetDueReviews(1)
    \/ GDC_GetNewCards(1)
    \/ GDC_Create(1)
    \/ GDC_GetByID(1)

SpecSession == InitSession /\ [][NextSession]_vars

\* ------------------------------------------ a repeated call (SpecRepeat)
\* the reviews tables of user 1 on day 1 from which the two calls start: no
\* row; card 1 introduced; both cards introduced at the same instant; card 1
\* rated Again on day 1 (due on day 2)
RepeatStores ==
    { {},
      { [NewReview(1, 1, 1) EXCEPT !.ID = 1] },
      { [NewReview(1, 1, 1) EXCEPT !.ID = 1], [NewReview(1, 2, 1) EXCEPT !.ID = 2] },
      { [ApplyReview(NewSM2Algorithm, NewReview(1, 1, 1), QualityAgain, 1)
           EXCEPT !.ID = 1] } }

InitRepeat ==
    /\ algErr = ErrNil
    /\ algorithm = NewSM2Algorithm
    /\ flashCards = FlashCards
    /\ rec = NoReview
    /\ out = NoCall
    /\ calls = 0
    /\ NoSession
    /\ \E rows \in RepeatStores :
          reviews = rows /\ nextID = Cardinality(rows) + 1
    /\ now = 1
    /\ pc = [p \in Procs |-> "idle"]
    /\ loc = [p \in Procs |-> Idle]
    /\ failures = 0
    /\ started = 0
    /\ hist = [k \in Users \X CardIDs |-> <<>>]

\* the first /review of the user
FirstCall ==
    /\ started = 0
    /\ \E b \in Banks, n \in Limits : GDC_Call(1, 1, b, n)

\* the next /review of the user, with the same arguments, after the first has
\* returned
SecondCall ==
    /\ pc[1] = "done"
    /\ pc[2] = "idle"
    /\ GDC_Call(2, loc[1].userID, loc[1].bankID, loc[1].limit)

NextRepeat ==
    \/ FirstCall
    \/ SecondCall
    \/ \E p \in Procs : GDC_GetDueReviews(p)
    \/ \E p \in Procs : GDC_GetDueReviewsFails(p)
    \/ \E p \in Procs : GDC_GetNewCards(p)
    \/ \E p \in Procs : GDC_GetNewCardsFails(p)
    \/ \E p \in Procs : GDC_Create(p)
    \/ \E p \in Procs : GDC_CreateFails(p)
    \/ \E p \in Procs : GDC_GetByID(p)
    \/ Tick

SpecRepeat == InitRepeat /\ [][NextRepeat]_vars

\* ------------------------------------------ the review session (SpecBot)
\* the sessions a /review of user 1 has stored on day 1 (handleReviewCommand):
\* the list GetDueCards returned and the rows it has left; the unseen cards
\* come newest first, and a card whose row could not be created is in the
\* list all the same
BotSessions ==
    LET card1 == CHOOSE c \in FlashCards : c.ID = 1
        card2 == CHOOSE c \in FlashCards : c.ID = 2
        row2 == Create({}, NewReview(1, 2, 1), 1).rows
    IN  { [cards |-> <<card2>>, rows |-> row2],
          [cards |-> <<card2, card1>>, rows |-> row2],
          [cards |-> <<card2, card1>>,
           rows |-> Create(row2, NewReview(1, 1, 1), 2).rows] }

InitBot ==
    /\ algErr = ErrNil
    /\ algorithm = NewSM2Algorithm
    /\ flashCards = FlashCards
    /\ rec = NoReview
    /\ out = NoCall
    /\ calls = 0 /\ failures = 0 /\ started = 0
    /\ now = 1
    /\ pc = [p \in Procs |-> "idle"]
    /\ loc = [p \in Procs |-> Idle]
    /\ hist = [k \in Users \X CardIDs |-> <<>>]
    /\ \E s \in BotSessions :
          /\ reviews = s.rows
          /\ nextID = Cardinality(s.rows) + 1
          /\ reviewState = [Cards |-> s.cards, CurrentCard |-> 0,
                            IsFlipped |-> FALSE, BankID |-> 1]
    /\ userStates = [u \in Users |-> [State |-> "reviewing", ReviewState |-> "session"]]
    /\ cb = [p \in Procs |-> CbIdle]
    /\ rated = <<>>

\* an index panic in a handler goroutine ends the process (no recover)
Crashed == \E p \in Procs : cb[p].at = "panic"

\* the index expression Cards[CurrentCard] does not panic
InRange ==
    /\ reviewState.CurrentCard >= 0
    /\ reviewState.CurrentCard < Len(reviewState.Cards)

At(p, place) == cb' = [cb EXCEPT ![p].at = place]

\* Bot.Start: go b.handleUpdate(update) for the next callback query
BotFree(p) ==
    /\ ~Crashed
    /\ cb[p].at \in {"idle", "done"}
    /\ started < MaxOps
    /\ \A q \in Procs : q < p => cb[q].at # "idle"

\* lines 741-758: the handler reads the user's state and keeps a copy of it
\* (the copy holds the pointer to the shared ReviewState)
handleReviewCallback(p, userID, action, rating) ==
    /\ BotFree(p)
    /\ started' = started + 1
    /\ LET state == userStates[userID] IN
       IF state.State # "reviewing" \/ state.ReviewState = "nil"
       THEN cb' = [cb EXCEPT ![p] = [CbIdle EXCEPT !.at = "done", !.userID = userID,
                                                   !.action = action,
                                                   !.rating = rating]]
       ELSE cb' = [cb EXCEPT ![p] = [CbIdle EXCEPT !.at = action, !.userID = userID,
                                                   !.action = action,
                                                   !.rating = rating,
                                                   !.state = state]]
    /\ UNCHANGED <<reviews, nextID, now, pc, loc, failures, hist, userStates,
                   reviewState, rated, algVars, calcVars>>

\* lines 763-764
CB_Flip(p) ==
    /\ ~Crashed
    /\ cb[p].at = "flip"
    /\ reviewState' = [reviewState EXCEPT !.IsFlipped = TRUE]
    /\ userStates' = [userStates EXCEPT ![cb[p].userID] = cb[p].state]
    /\ At(p, "showFlipped")
    /\ UNCHANGED <<rated, algVars, calcVars, svcVars>>

\* line 767: showReviewCard(..., reviewState.Cards[reviewState.CurrentCard], true)
CB_ShowFlipped(p) ==
    /\ ~Crashed
    /\ cb[p].at = "showFlipped"
    /\ At(p, IF InRange THEN "done" ELSE "panic")
    /\ UNCHANGED <<userStates, reviewState, rated, algVars, calcVars, svcVars>>

\* lines 783-784: the current card is read and ProcessReview is called
CB_Rate(p) ==
    /\ ~Crashed
    /\ cb[p].at = "rate"
    /\ IF InRange
       THEN LET currentCard == reviewState.Cards[reviewState.CurrentCard + 1] IN
            /\ cb' = [cb EXCEPT ![p].at = "ProcessReview",
                                ![p].cardID = currentCard.ID]
            /\ Set(p, [Idle EXCEPT !.op = "ProcessReview",
                                   !.userID = cb[p].userID,
                                   !.cardID = currentCard.ID,
                                   !.quality = cb[p].rating])
            /\ Goto(p, "GetByUserAndCard")
       ELSE At(p, "panic") /\ UNCHANGED <<pc, loc>>
    /\ UNCHANGED <<reviews, nextID, now, failures, started, hist, userStates,
                   reviewState, rated, algVars, calcVars>>

\* lines 785-827: ProcessReview has returned; on an error the handler
\* reports it and returns, otherwise it goes on to the next card
CB_Returned(p) ==
    /\ ~Crashed
    /\ cb[p].at = "ProcessReview"
    /\ pc[p] = "done"
    /\ IF loc[p].err # ErrNil
       THEN At(p, "done") /\ UNCHANGED rated
       ELSE At(p, "increment") /\ rated' = Append(rated, cb[p].cardID)
    /\ UNCHANGED <<userStates, reviewState, algVars, calcVars, svcVars>>

\* line 830, reviewState.CurrentCard++ on the shared ReviewState without
\* synchronisation: the load
CB_LoadIndex(p) ==
    /\ ~Crashed
    /\ cb[p].at = "increment"
    /\ cb' = [cb EXCEPT ![p].at = "storeIndex", ![p].index = reviewState.CurrentCard]
    /\ UNCHANGED <<userStates, reviewState, rated, algVars, calcVars, svcVars>>

\* lines 830-831: the store of the incremented index, and IsFlipped = false
CB_StoreIndex(p) ==
    /\ ~Crashed
    /\ cb[p].at = "storeIndex"
    /\ reviewState' = [reviewState EXCEPT !.CurrentCard = cb[p].index + 1,
                                          !.IsFlipped = FALSE]
    /\ At(p, "check")
    /\ UNCHANGED <<userStates, rated, algVars, calcVars, svcVars>>

\* lines 833-852: after the last card the user's state is deleted
CB_Check(p) ==
    /\ ~Crashed
    /\ cb[p].at = "check"
    /\ IF reviewState.CurrentCard >= Len(reviewState.Cards)
       THEN /\ userStates' = [userStates EXCEPT ![cb[p].userID] = NoUserState]
            /\ At(p, "done")
       ELSE /\ UNCHANGED userStates
            /\ At(p, "store")
    /\ UNCHANGED <<reviewState, rated, algVars, calcVars, svcVars>>

\* line 854: the handler's copy of the state is written back to the map
CB_Store(p) ==
    /\ ~Crashed
    /\ cb[p].at = "store"
    /\ userStates' = [userStates EXCEPT ![cb[p].userID] = cb[p].state]
    /\ At(p, "show")
    /\ UNCHANGED <<reviewState, rated, algVars, calcVars, svcVars>>

\* line 855: showReviewCard(..., reviewState.Cards[reviewState.CurrentCard], false)
CB_Show(p) ==
    /\ ~Crashed
    /\ cb[p].at = "show"
    /\ At(p, IF InRange THEN "done" ELSE "panic")
    /\ UNCHANGED <<userStates, reviewState, rated, algVars, calcVars, svcVars>>

\* the callbacks of the inline keyboard of a shown card
CallbackActions == {"flip", "rate"}

NextBot ==
    \/ \E p \in Procs, u \in Users, a \in CallbackActions, r \in ServiceQualities :
          handleReviewCallback(p, u, a, r)
    \/ \E p \in Procs : CB_Flip(p)
    \/ \E p \in Procs : CB_ShowFlipped(p)
    \/ \E p \in Procs : CB_Rate(p)
    \/ \E p \in Procs : PR_GetByUserAndCard(p)
    \/ \E p \in Procs : PR_GetByUserAndCardFails(p)
    \/ \E p \in Procs : PR_Create(p)
    \/ \E p \in Procs : PR_CreateFails(p)
    \/ \E p \in Procs : PR_Update(p)
    \/ \E p \in Procs : PR_UpdateFails(p)
    \/ \E p \in Procs : CB_Returned(p)
    \/ \E p \in Procs : CB_LoadIndex(p)
    \/ \E p \in Procs : CB_StoreIndex(p)
    \/ \E p \in Procs : CB_Check(p)
    \/ \E p \in Procs : CB_Store(p)
    \/ \E p \in Procs : CB_Show(p)

SpecBot == InitBot /\ [][NextBot]_vars

\* ------------------------------------------------ scheduler runs (SpecCalc)
\* a record in any state, rated again and again through the in-memory part of
\* ProcessReview, under every algorithm the factory can construct
InitCalc ==
    /\ \E config \in AlgorithmConfigs :
          LET c == CreateAlgorithm(config)
          IN  algErr = c.err /\ algorithm = c.algorithm
    /\ flashCards = FlashCards
    /\ \E e \in InitEaseFactors, i \in 0..MaxInitInterval,
          n \in 0..MaxInitRepetitions :
          rec = [NewReview(1, 1, 1) EXCEPT !.EaseFactor = e, !.Interval = i,
                                           !.Repetitions = n]
    /\ out = NoCall
    /\ calls = 0
    /\ NoSession
    /\ InitStore

Rate(quality) ==
    /\ algErr = ErrNil
    /\ calls < MaxCalls
    /\ LET r == CalculateNextReview(algorithm, rec, quality, 1)
       IN  out' = [quality |-> quality, prev |-> out.quality, before |-> rec,
                   interval |-> r.interval, easeFactor |-> r.easeFactor,
                   nextReview |-> r.nextReview]
    /\ rec' = ApplyReview(algorithm, rec, quality, 1)
    /\ calls' = calls + 1
    /\ UNCHANGED <<algVars, svcVars, botVars>>

NextCalc == \E quality \in Qualities : Rate(quality)

SpecCalc == InitCalc /\ [][NextCalc]_vars


\* ------------------------------------------------ claims on scheduler runs

\* C2: after every call, for every sequence of ratings and every starting
\* record (also one whose ease factor is zero), the ease factor the scheduler
\* returns and the one ProcessReview stores are at least the algorithm's
\* MinEaseFactor, in both variants.
C2_EaseFactorFloor ==
    calls > 0 =>
        /\ out.easeFactor >= algorithm.MinEaseFactor
        /\ rec.EaseFactor >= algorithm.MinEaseFactor
        /\ rec.EaseFactor = out.easeFactor

\* the floor acted: Again on a record already at the default minimum, after an
\* earlier call, in the customizable variant
C2_Witness ==
    /\ calls > 1
    /\ algorithm.type = AlgorithmTypeCustom
    /\ out.quality = QualityAgain
    /\ out.before.EaseFactor + DefaultEaseFactorAdjustments[QualityAgain]
          < algorithm.MinEaseFactor
    /\ rec.EaseFactor = algorithm.MinEaseFactor

\* C3 as stated: Scenario C in the SM-2 variant (repetitions 2, interval 3, ease
\* 2.5, rated Easy) gives ease 2.65 and an interval of exactly 10 days.
C3_ScenarioC_Original ==
    ( /\ calls > 0
      /\ algorithm = NewSM2Algorithm
      /\ out.quality = QualityEasy
      /\ out.before.Repetitions = 2
      /\ out.before.Interval = 3
      /\ out.before.EaseFactor = 250 )
    => (out.easeFactor = 265 /\ out.interval = 10)

\* C3 amended: Scenario C gives ease 2.65 and an interval of exactly 9 days:
\* round(3 * 2.65) = 8, and 8 * 1.2 = 9.6 is truncated by the int conversion.
C3_ScenarioC ==
    ( /\ calls > 0
      /\ algorithm = NewSM2Algorithm
      /\ out.quality = QualityEasy
      /\ out.before.Repetitions = 2
      /\ out.before.Interval = 3
      /\ out.before.EaseFactor = 250 )
    => (out.easeFactor = 265 /\ out.interval = 9 /\ rec.Interval = 9)

\* Scenario C happened on a record that reached (2, 3, 2.5) by two Good ratings
C3_Witness ==
    /\ calls = 3
    /\ algorithm = NewSM2Algorithm
    /\ out.quality = QualityEasy
    /\ out.before.Repetitions = 2
    /\ out.before.Interval = 3
    /\ out.before.EaseFactor = 250
    /\ out.before.LastReviewed # ZeroTime

\* C9: Again yields interval 1 whatever the record's repetitions, interval and
\* ease factor were, in both variants and under every accepted configuration,
\* and that interval is the one stored.
C9_AgainIntervalOne ==
    (calls > 0 /\ out.quality = QualityAgain) =>
        (out.interval = 1 /\ rec.Interval = 1 /\ out.nextReview = 1 + 1)

\* Again on a record with a longer interval, in the customizable variant with a
\* MaxInterval below one day
C9_Witness ==
    /\ calls > 0
    /\ out.quality = QualityAgain
    /\ algorithm.type = AlgorithmTypeCustom
    /\ algorithm.MaxInterval < 1
    /\ out.before.Interval > 1
    /\ out.before.Repetitions > 1
    /\ rec.Interval = 1

\* C10 as stated: every non-Again rating yields an interval of at least one day,
\* in the SM-2 variant and in the customizable variant under every
\* configuration the factory accepts.
C10_IntervalAtLeastOne ==
    (calls > 0 /\ out.quality # QualityAgain) =>
        (out.interval >= 1 /\ rec.Interval >= 1)

\* C11 as stated: in the customizable variant the interval CalculateNextReview
\* returns is at most MaxInterval, for every record, every rating (Again
\* included) and every MaxInterval the factory accepts.
C11_IntervalAtMostMax ==
    (calls > 0 /\ algorithm.type = AlgorithmTypeCustom) =>
        out.interval <= algorithm.MaxInterval

\* C12 as stated: Again is a hard reset in the SM-2 variant: whatever the
\* record's history, the Good rating that follows an Again yields an interval of
\* 1 day, and the Good rating after that one yields 3 days.
C12_AgainIsHardReset ==
    [][ ( /\ algorithm = NewSM2Algorithm
          /\ calls' = calls + 1
          /\ out'.quality = QualityGood )
        => /\ (out'.prev = QualityAgain) => (out'.interval = 1 /\ rec'.Interval = 1)
           /\ (out.prev = QualityAgain /\ out.quality = QualityGood)
                 => (out'.interval = 3 /\ rec'.Interval = 3) ]_vars

\* the record of Scenario B: a new record after one Good rating on day 1
ScenarioBRecord ==
    [NewReview(1, 1, 1) EXCEPT !.Repetitions = 1, !.Interval = 1,
                               !.DueDate = 2, !.LastReviewed = 1]

\* C13: in the SM-2 variant, Good on a new record (ease 2.5, repetitions 0,
\* interval 0) leaves repetitions 1, interval 1 and ease 2.5, and a second Good
\* leaves repetitions 2, interval 3 and ease 2.5.
C13_ScenariosAB ==
    /\ ( /\ calls = 1
         /\ algorithm = NewSM2Algorithm
         /\ out.quality = QualityGood
         /\ out.before = NewReview(1, 1, 1) )
       => ( /\ out.interval = 1 /\ out.easeFactor = 250
            /\ rec = ScenarioBRecord )
    /\ ( /\ calls = 2
         /\ algorithm = NewSM2Algorithm
         /\ out.prev = QualityGood
         /\ out.quality = QualityGood
         /\ out.before = ScenarioBRecord )
       => ( /\ out.interval = 3 /\ out.easeFactor = 250
            /\ rec.Repetitions = 2 /\ rec.Interval = 3 /\ rec.EaseFactor = 250 )

\* two Good ratings have been applied to the record of Scenario A
C13_Witness ==
    /\ calls = 2
    /\ algorithm = NewSM2Algorithm
    /\ out.prev = QualityGood
    /\ out.quality = QualityGood
    /\ out.before = ScenarioBRecord
    /\ rec.Repetitions = 2
    /\ rec.DueDate = 1 + 3

\* C14: for every record and rating the new ease factor, returned and stored, is
\* max(MinEaseFactor, e + delta) with e the record's ease factor (the
\* algorithm's default, 2.5 unless configured, when it is zero) and delta -0.3,
\* -0.15, 0, +0.15 for Again, Hard, Good, Easy; there is no upper bound.
C14_EaseFactorFormula ==
    calls > 0 =>
        LET e == IF out.before.EaseFactor = 0 THEN algorithm.DefaultEaseFactor
                 ELSE out.before.EaseFactor
            delta == CASE out.quality = QualityAgain -> -30
                       [] out.quality = QualityHard -> -15
                       [] out.quality = QualityGood -> 0
                       [] out.quality = QualityEasy -> 15
            expected == IF e + delta > algorithm.MinEaseFactor THEN e + delta
                        ELSE algorithm.MinEaseFactor
        IN  /\ out.easeFactor = expected
            /\ rec.EaseFactor = expected
            /\ (algorithm.type = AlgorithmTypeSM2 /\ out.before.EaseFactor = 0)
                  => e = 250

\* Again on a record whose ease factor was zero, under a configured default of
\* 1.5: the default was used and the result floored at MinEaseFactor
C14_Witness ==
    /\ calls = 1
    /\ out.quality = QualityAgain
    /\ out.before.EaseFactor = 0
    /\ algorithm.DefaultEaseFactor = 150
    /\ algorithm.MinEaseFactor = 130
    /\ rec.EaseFactor = 130


ParameterKinds ==
    ("min_ease_factor" :> "float64") @@ ("default_ease_factor" :> "float64") @@
    ("max_interval" :> "int") @@ ("initial_intervals" :> "[]int")

\* a configuration the claim calls valid
ValidConfig(config) ==
    \/ config.Type = "sm2"
    \/ /\ config.Type = "custom"
       /\ \A n \in DOMAIN config.Parameters :
             /\ n \in DOMAIN ParameterKinds
             /\ config.Parameters[n].kind = ParameterKinds[n]

\* C25: CreateAlgorithm returns an error and no algorithm when the type is
\* neither "sm2" nor "custom" and when a "custom" configuration holds an unknown
\* parameter name or a value of the wrong type; otherwise it returns an algorithm
\* of the configured type and no error; a SetParameter that fails leaves the
\* algorithm as it was.
C25_InvalidConfigurationFails ==
    /\ \A config \in AlgorithmConfigs :
          LET c == CreateAlgorithm(config) IN
          (c.err = algErr /\ c.algorithm = algorithm) =>
              IF ValidConfig(config)
              THEN /\ algErr = ErrNil
                   /\ algorithm # NoAlgorithm
                   /\ algorithm.type = config.Type
              ELSE /\ algErr = ErrInvalidParameter
                   /\ algorithm = NoAlgorithm
    /\ algorithm.type = AlgorithmTypeCustom =>
          \A m \in ParameterMaps : \A n \in DOMAIN m :
              LET r == SetParameter(algorithm, n, m[n]) IN
              IF n \in DOMAIN ParameterKinds /\ m[n].kind = ParameterKinds[n]
              THEN r.err = ErrNil
              ELSE r.err = ErrInvalidParameter /\ r.algorithm = algorithm

\* the factory has refused a configuration: an error and no algorithm, and no
\* scheduler call is made
C25_Witness ==
    /\ algErr = ErrInvalidParameter
    /\ algorithm = NoAlgorithm
    /\ calls = 0
    /\ \E config \in AlgorithmConfigs :
          /\ config.Type = AlgorithmTypeCustom
          /\ \E n \in DOMAIN config.Parameters :
                n \in DOMAIN ParameterKinds /\ config.Parameters[n].kind # ParameterKinds[n]
          /\ CreateAlgorithm(config).err = algErr


\* a superset of the records that ProcessReview calls produce from a fresh
\* record: no rating yet and interval 0, one rating and interval 1, or more
\* ratings and an interval of at least one day
Plausible(review) ==
    /\ review.Repetitions >= 0
    /\ review.Repetitions = 0 => review.Interval = 0
    /\ review.Repetitions = 1 => review.Interval = 1
    /\ review.Repetitions >= 2 => review.Interval >= 1

\* C28: in the Standard variant, on every record that ProcessReview calls can
\* produce from a fresh record, a Hard, Good or Easy rating stores an interval
\* that is at least the interval stored before the call (the fresh record is
\* such a record, and every rating yields such a record again); the same for
\* the third and later ratings at every interval up to 40 days and every ease
\* factor from 1.3 to 3.3.
C28_NonAgainNeverShortens ==
    /\ Plausible(NewReview(1, 1, 1))
    /\ ( /\ algErr = ErrNil
         /\ algorithm.type = AlgorithmTypeSM2
         /\ calls > 0
         /\ Plausible(out.before) )
       => /\ Plausible(rec)
          /\ out.quality # QualityAgain =>
                /\ rec.Interval = out.interval
                /\ rec.Interval >= out.before.Interval
    /\ (algorithm = NewSM2Algorithm /\ calls = 0) =>
          \A i \in 1..40, k \in 0..40 :
          \A quality \in Qualities \ {QualityAgain} :
              LET review == [NewReview(1, 1, 1) EXCEPT !.Interval = i,
                                                       !.Repetitions = 2,
                                                       !.EaseFactor = 130 + 5 * k]
              IN  SM2CalculateNextReview(algorithm, review, quality, 1).interval >= i

\* the tightest case: after an Again (interval 1) on a card rated twice
\* before, Hard at the minimum ease factor gives round(1.3) = 1, 0.8 of it
\* truncates to 0 and the floor stores 1 day again
C28_Witness ==
    /\ algErr = ErrNil
    /\ algorithm.type = AlgorithmTypeSM2
    /\ calls = 3
    /\ Plausible(out.before)
    /\ out.prev = QualityAgain
    /\ out.quality = QualityHard
    /\ out.before.Repetitions >= 2
    /\ out.before.Interval = 1
    /\ out.easeFactor = 130
    /\ rec.Interval = 1


\* ------------------------------------------------ claims on the service

Returned(p, op) == pc[p] = "done" /\ loc[p].op = op
Succeeded(p, op) == Returned(p, op) /\ loc[p].err = ErrNil
RowsOf(rows, userID, cardID) ==
    { r \in rows : r.UserID = userID /\ r.FlashCardID = cardID }

\* C1 as stated: when ProcessReview(user, card, Again) succeeds, the row it
\* has stored for (user, card) has repetitions 0, whatever it held before.
C1_AgainStoresZeroRepetitions ==
    [][\A p \in Procs :
          ( /\ pc[p] = "Update"
            /\ pc'[p] = "done"
            /\ loc'[p].err = ErrNil
            /\ loc[p].quality = QualityAgain )
          => \A r \in RowsOf(reviews', loc[p].userID, loc[p].cardID) :
                r.Repetitions = 0]_vars

\* C4: in every reachable state the reviews table holds at most one row per
\* (user, card), whatever the interleaving of GetDueCards and ProcessReview.
C4_OneReviewPerPair ==
    \A r1, r2 \in reviews :
        (r1.UserID = r2.UserID /\ r1.FlashCardID = r2.FlashCardID) => r1 = r2

\* two ProcessReview calls for one pair both found no row, both have run their
\* Create, and one row exists
C4_Witness ==
    \E p, q \in Procs :
        /\ p # q
        /\ loc[p].op = "ProcessReview" /\ loc[q].op = "ProcessReview"
        /\ loc[p].userID = loc[q].userID /\ loc[p].cardID = loc[q].cardID
        /\ loc[p].getErr = ErrNotFound /\ loc[q].getErr = ErrNotFound
        /\ pc[p] \in {"Update", "done"} /\ pc[q] = "done"
        /\ Cardinality(RowsOf(reviews, loc[p].userID, loc[p].cardID)) = 1

\* C5 as stated: a ProcessReview that found no row and lost the race to create
\* it does not return an error (the Create is an idempotent upsert): no
\* ProcessReview whose lookup said not-found returns the uniqueness violation.
C5_CreateIsIdempotent ==
    \A p \in Procs :
        (Returned(p, "ProcessReview") /\ loc[p].getErr = ErrNotFound)
        => loc[p].err # ErrUnique

\* the record after the ratings qs, applied one after the other to a new record
RECURSIVE Replay(_, _)
Replay(review, qs) ==
    IF qs = <<>> THEN review
    ELSE Replay(ApplyReview(algorithm, review, Head(qs), 1), Tail(qs))

Orders(qs) ==
    { [i \in 1..Len(qs) |-> qs[f[i]]] :
        f \in Arrangements(1..Len(qs), Len(qs)) }

Schedule(r) == <<r.Repetitions, r.EaseFactor, r.Interval>>

\* C6 as stated: when two concurrent ProcessReview calls for one existing row
\* both succeed, the stored repetitions, ease factor and interval are those of
\* the two ratings applied one after the other in some order.
C6_NoLostUpdate ==
    \A p, q \in Procs :
        ( /\ p # q
          /\ Succeeded(p, "ProcessReview") /\ Succeeded(q, "ProcessReview")
          /\ loc[p].userID = loc[q].userID /\ loc[p].cardID = loc[q].cardID
          /\ loc[p].getErr = ErrNil /\ loc[q].getErr = ErrNil )
        => \A r \in RowsOf(reviews, loc[p].userID, loc[p].cardID) :
              \E o \in Orders(hist[<<loc[p].userID, loc[p].cardID>>]) :
                 Schedule(r) = Schedule(Replay(NewReview(r.UserID, r.FlashCardID, 1), o))

\* C7: a successful GetDueCards returns at most limit cards, for every limit
\* >= 0 and every store state, also when lookups or inserts fail.
C7_AtMostLimit ==
    \A p \in Procs :
        Succeeded(p, "GetDueCards") => Len(loc[p].cards) <= loc[p].limit

\* a call with limit 1 returned one card although a store call failed, and
\* another card of the bank is still unseen
C7_Witness ==
    \E p \in Procs :
        /\ Succeeded(p, "GetDueCards")
        /\ loc[p].limit = 1
        /\ Len(loc[p].cards) = 1
        /\ failures > 0
        /\ NewRows(reviews, loc[p].userID, loc[p].bankID) # {}

\* the due date GetDueReviews returned for a card (0 for a new card)
DueDateOf(l, cardID) ==
    IF \E i \in 1..Len(l.reviews) : l.reviews[i].FlashCardID = cardID
    THEN (CHOOSE r \in { l.reviews[i] : i \in 1..Len(l.reviews) } :
             r.FlashCardID = cardID).DueDate
    ELSE 0

IsDue(l, cardID) ==
    \E i \in 1..Len(l.reviews) : l.reviews[i].FlashCardID = cardID

\* C8: in the list GetDueCards returns, every card of a due review precedes
\* every newly introduced card, and the due cards are in ascending order of
\* the due dates the due query returned.
C8_DueFirstAscending ==
    \A p \in Procs :
        Succeeded(p, "GetDueCards") =>
            LET l == loc[p] IN
            \A a, b \in 1..Len(l.cards) :
                a < b =>
                    /\ IsDue(l, l.cards[b].ID) => IsDue(l, l.cards[a].ID)
                    /\ (IsDue(l, l.cards[a].ID) /\ IsDue(l, l.cards[b].ID))
                         => DueDateOf(l, l.cards[a].ID) <= DueDateOf(l, l.cards[b].ID)

\* a call returned a due card followed by a newly introduced card
C8_Witness ==
    \E p \in Procs :
        /\ Succeeded(p, "GetDueCards")
        /\ Len(loc[p].cards) = 2
        /\ IsDue(loc[p], loc[p].cards[1].ID)
        /\ ~IsDue(loc[p], loc[p].cards[2].ID)
        /\ RowsOf(reviews, loc[p].userID, loc[p].cards[2].ID) # {}

\* the row of the reviews table for a card
RowOf(rows, userID, cardID) ==
    CHOOSE r \in rows : r.UserID = userID /\ r.FlashCardID = cardID

\* C15: Scenario E.  With exactly 3 overdue reviews for (user, bank), 20 unseen
\* cards in the bank and limit 10, GetDueCards returns 10 cards: the 3 due cards
\* first, in ascending order of due date, then 7 unseen cards; afterwards
\* exactly 7 rows exist that did not exist before, one per returned unseen
\* card, each with the fields of a new record.
C15_ScenarioE ==
    \A p \in Procs :
        ( /\ Succeeded(p, "GetDueCards")
          /\ flashCards = SessionCards
          /\ loc[p].limit = 10
          /\ started = 1
          /\ failures = 0 )
        => LET cs == loc[p].cards
               old == { r \in reviews : r.ID < 5 }
               new == { r \in reviews : r.ID >= 5 }
           IN  /\ Len(cs) = 10
               /\ \A a, b \in 1..10 : a # b => cs[a] # cs[b]
               /\ Cardinality(old) = 4
               /\ \A a \in 1..3 :
                     /\ RowsOf(old, loc[p].userID, cs[a].ID) # {}
                     /\ RowOf(old, loc[p].userID, cs[a].ID).DueDate <= now
               /\ \A a \in 1..2 :
                     RowOf(old, loc[p].userID, cs[a].ID).DueDate
                        <= RowOf(old, loc[p].userID, cs[a + 1].ID).DueDate
               /\ \A a \in 4..10 :
                     /\ cs[a].CardBankID = loc[p].bankID
                     /\ RowsOf(old, loc[p].userID, cs[a].ID) = {}
                     /\ \E r \in new :
                           r = [NewReview(loc[p].userID, cs[a].ID, now) EXCEPT !.ID = r.ID]
               /\ Cardinality(new) = 7

\* the call of Scenario E has returned, with two of the three due dates equal
C15_Witness ==
    /\ Succeeded(1, "GetDueCards")
    /\ flashCards = SessionCards
    /\ loc[1].limit = 10
    /\ started = 1
    /\ failures = 0
    /\ Len(loc[1].reviews) = 3
    /\ Len(loc[1].newCards) = 7
    /\ loc[1].reviews[1].DueDate < loc[1].reviews[2].DueDate
    /\ loc[1].reviews[2].DueDate = loc[1].reviews[3].DueDate
    /\ Cardinality(reviews) = 11

\* C16 as stated: every card GetDueCards returns in the new part of its result
\* has a row for (user, card) when GetDueCards returns, also when a Create call
\* fails, and a call in which a Create failed does not return success.
C16_NewCardsAreReserved ==
    \A p \in Procs :
        Succeeded(p, "GetDueCards") =>
            /\ \A i \in 1..Len(loc[p].newCards) :
                  RowsOf(reviews, loc[p].userID, loc[p].newCards[i].ID) # {}
            /\ loc[p].log # "Failed to create review for new card"

\* C17 as stated: when the lookup of ProcessReview fails with an I/O error,
\* ProcessReview returns that error and neither creates nor updates a row.
C17_LookupFailurePropagates ==
    [][\A p \in Procs :
          ( /\ pc[p] = "CreateReview"
            /\ loc[p].getErr = ErrIO
            /\ pc'[p] # pc[p] )
          => ( /\ reviews' = reviews
               /\ pc'[p] = "done"
               /\ loc'[p].err = ErrIO )]_vars

\* C18 as stated: a rating outside {0,1,2,3} never reaches the scheduler:
\* ProcessReview called with one changes no row, does not get to the
\* scheduler's result (the Update) and returns an error; and the callback
\* handler returns without calling ProcessReview.
C18_InvalidQualityRejected ==
    [][\A p \in Procs :
          /\ ( /\ loc[p].op = "ProcessReview"
               /\ loc[p].quality \notin Qualities
               /\ pc[p] # "done"
               /\ pc'[p] # pc[p] )
             => ( /\ reviews' = reviews
                  /\ pc'[p] # "Update"
                  /\ pc'[p] = "done" => loc'[p].err # ErrNil )
          /\ ( /\ loc'[p].op = "handleReviewCallback"
               /\ loc'[p] # loc[p] )
             => (reviews' = reviews /\ pc'[p] = "done")]_vars

\* C19: when the due-review query fails, GetDueCards returns the error and no
\* cards, makes no further store call (the unseen-card query included) and
\* creates no row.
C19_DueQueryFailureIsFatal ==
    [][\A p \in Procs :
          ( /\ pc[p] = "GetDueReviews"
            /\ pc'[p] # pc[p]
            /\ failures' > failures )
          => ( /\ pc'[p] = "done"
               /\ loc'[p].err = ErrIO
               /\ loc'[p].cards = <<>>
               /\ loc'[p].newCards = <<>>
               /\ reviews' = reviews
               /\ nextID' = nextID )]_vars

\* the due query of a call with limit > 0 failed while a due review and an
\* unseen card existed; the call returned the error and no card
C19_Witness ==
    \E p \in Procs :
        /\ Returned(p, "GetDueCards")
        /\ loc[p].err = ErrIO
        /\ loc[p].log = "Failed to get due reviews"
        /\ loc[p].limit > 0
        /\ loc[p].cards = <<>>
        /\ DueRows(reviews, loc[p].userID, loc[p].bankID, now) # {}
        /\ NewRows(reviews, loc[p].userID, loc[p].bankID) # {}

\* s consists of elements of t, in the order they have in t
IsSubsequence(s, t) ==
    \E f \in [1..Len(s) -> 1..Len(t)] :
        /\ \A a, b \in 1..Len(s) : a < b => f[a] < f[b]
        /\ \A a \in 1..Len(s) : s[a] = t[f[a]]

\* C20: when card lookups for due reviews fail, GetDueCards still succeeds:
\* exactly the failed entries are left out, the other due cards keep their
\* order, and the selected new cards follow them.
C20_LookupFailureSkipsEntry ==
    [][\A p \in Procs :
          (pc[p] = "GetByID" /\ pc'[p] = "done")
          => LET l == loc'[p]
                 due == [i \in 1..Len(l.reviews) |-> CardOf(l.reviews[i].FlashCardID)]
             IN  /\ l.err = ErrNil
                 /\ l.reviews = loc[p].reviews
                 /\ l.newCards = loc[p].newCards
                 /\ Len(l.dueCards) = Len(l.reviews) - (failures' - failures)
                 /\ IsSubsequence(l.dueCards, due)
                 /\ l.cards = l.dueCards \o l.newCards ]_vars

\* of two due reviews the lookup of the first card failed: the call succeeded
\* and returned the second card
C20_Witness ==
    \E p \in Procs :
        /\ Succeeded(p, "GetDueCards")
        /\ loc[p].log = "Failed to get card for review"
        /\ Len(loc[p].reviews) = 2
        /\ Len(loc[p].cards) = 1
        /\ loc[p].cards[1].ID = loc[p].reviews[2].FlashCardID

\* C21: a row rated at time t with interval i stored has due date t + i; the due
\* query never returns a row before its due date, and selects every row of the
\* user and bank whose due date has come.
C21_DueAfterInterval ==
    /\ \A r \in reviews :
          r.LastReviewed # ZeroTime => r.DueDate = r.LastReviewed + r.Interval
    /\ \A p \in Procs : \A i \in 1..Len(loc[p].reviews) :
          loc[p].reviews[i].DueDate <= now
    /\ \A r \in reviews :
          (r \in DueRows(reviews, r.UserID, CardOf(r.FlashCardID).CardBankID, now))
             <=> (r.DueDate <= now)

\* a card rated Again on day 1 is not due that day, and a GetDueCards call on
\* day 2 has returned it as due
C21_Witness ==
    \E p \in Procs : \E r \in reviews :
        /\ r.LastReviewed = 1
        /\ r.Interval = 1
        /\ r.DueDate = 2
        /\ now = 2
        /\ Succeeded(p, "GetDueCards")
        /\ Len(loc[p].cards) > 0
        /\ \E i \in 1..Len(loc[p].reviews) : loc[p].reviews[i] = r

\* the rows of reviews the due query of a call with the locals l ranks before r
\* (strictly: only rows with an earlier due date)
RankedBefore(l, r, strictly) ==
    { x \in DueRows(reviews, l.userID, l.bankID, now) \ {r} :
        IF strictly THEN x.DueDate < r.DueDate ELSE x.DueDate <= r.DueDate }

\* a row GetDueCards created that has not been rated
Unrated(r) == r.LastReviewed = ZeroTime /\ r.Repetitions = 0 /\ r.Interval = 0

\* what C22 says of the queries of one call, with the given reading of "earlier"
StaysInAccounting(strictly) ==
    \A p \in Procs :
        LET l == loc[p] IN
        /\ ( /\ pc[p] = "GetDueReviews"
             /\ pc'[p] # pc[p]
             /\ failures' = failures )
           => \A r \in reviews :
                 ( /\ Unrated(r)
                   /\ r.UserID = l.userID
                   /\ CardOf(r.FlashCardID).CardBankID = l.bankID
                   /\ Cardinality(RankedBefore(l, r, strictly)) < l.limit )
                 => /\ r.DueDate <= now
                    /\ \E i \in 1..Len(loc'[p].reviews) : loc'[p].reviews[i] = r
        /\ ( /\ pc[p] = "GetNewCards"
             /\ pc'[p] # pc[p] )
           => \A i \in 1..Len(loc'[p].newCards) :
                 RowsOf(reviews, l.userID, loc'[p].newCards[i].ID) = {}

\* C22 as stated: the row of a card introduced as new and never rated is due
\* from its creation; every later due query for the user and bank returns it
\* whenever fewer than limit rows of that user and bank have an earlier due
\* date, and the unseen-card query never returns the card again.
C22_IntroducedCardStays_Original == [][StaysInAccounting(TRUE)]_vars

\* C22 amended: ... whenever fewer than limit other due rows of that user and
\* bank have an earlier or the same due date ...
C22_IntroducedCardStays == [][StaysInAccounting(FALSE)]_vars

\* of two unrated rows with different due dates a later call with limit 1 has
\* returned the card of the earlier one, as a due card
C22_Witness ==
    \E p \in Procs : \E r1, r2 \in reviews :
        /\ Unrated(r1) /\ Unrated(r2)
        /\ r1.DueDate < r2.DueDate
        /\ Succeeded(p, "GetDueCards")
        /\ loc[p].limit = 1
        /\ loc[p].reviews = <<r1>>
        /\ loc[p].cards = <<CardOf(r1.FlashCardID)>>
        /\ r2.DueDate <= now

\* C23: one GetDueCards call creates at most limit - d rows, d being the number
\* of due reviews its due query returned: only the steps of the create loop
\* change the table, each adds at most one row, and there is one step per
\* selected card, of which there are at most limit - d.  When d = limit the
\* unseen cards are not queried, no row is created and only due cards are
\* returned.
C23_CreatesAtMostRemaining ==
    [][\A p \in Procs :
          ( /\ loc[p].op = "GetDueCards"
            /\ pc[p] \notin {"idle", "done"}
            /\ (pc'[p] # pc[p] \/ loc'[p] # loc[p]) )
          => LET l == loc[p]
                 m == loc'[p]
             IN  /\ pc[p] # "Create" => reviews' = reviews
                 /\ pc[p] = "Create" =>
                       /\ Cardinality(reviews') <= Cardinality(reviews) + 1
                       /\ l.i \in 1..Len(l.newCards)
                       /\ Len(l.newCards) <= l.limit - Len(l.reviews)
                       /\ pc'[p] = "Create" => m.i = l.i + 1
                 /\ ( /\ pc[p] = "GetDueReviews"
                      /\ failures' = failures
                      /\ Len(m.reviews) = l.limit )
                    => (pc'[p] \in {"GetByID", "done"} /\ m.newCards = <<>>)
                 /\ ( /\ pc'[p] = "done"
                      /\ m.err = ErrNil
                      /\ Len(m.reviews) = l.limit )
                    => /\ m.newCards = <<>>
                       /\ \A a \in 1..Len(m.cards) : IsDue(m, m.cards[a].ID) ]_vars

\* a call whose due query filled the limit has returned only the due card,
\* while an unseen card of the bank was left without a row
C23_Witness ==
    \E p \in Procs :
        /\ Succeeded(p, "GetDueCards")
        /\ loc[p].limit = 1
        /\ Len(loc[p].reviews) = 1
        /\ loc[p].newCards = <<>>
        /\ loc[p].cards = <<CardOf(loc[p].reviews[1].FlashCardID)>>
        /\ NewRows(reviews, loc[p].userID, loc[p].bankID) # {}
        /\ failures = 0

\* C26: no card appears twice in what one GetDueCards call collects and
\* returns: the due reviews name pairwise different cards, the unseen cards are
\* pairwise different, no unseen card is the card of a due review, and the
\* returned list has no repetition, whatever the other handler does between
\* the two queries.
C26_NoCardTwice ==
    \A p \in Procs :
        loc[p].op = "GetDueCards" =>
            LET l == loc[p] IN
            /\ \A a, b \in 1..Len(l.reviews) :
                  a # b => l.reviews[a].FlashCardID # l.reviews[b].FlashCardID
            /\ \A a, b \in 1..Len(l.newCards) :
                  a # b => l.newCards[a].ID # l.newCards[b].ID
            /\ \A a \in 1..Len(l.reviews), b \in 1..Len(l.newCards) :
                  l.reviews[a].FlashCardID # l.newCards[b].ID
            /\ \A a, b \in 1..Len(l.cards) :
                  a # b => l.cards[a].ID # l.cards[b].ID

\* a call with limit 2 whose due query found nothing and whose unseen-card
\* query found only one of the two cards: the other call introduced the other
\* card between the two queries (its unrated row is due from its creation)
C26_Witness ==
    \E p, q \in Procs :
        /\ p # q
        /\ loc[p].op = "GetDueCards"
        /\ Succeeded(q, "GetDueCards")
        /\ loc[q].limit = 2
        /\ loc[q].reviews = <<>>
        /\ Len(loc[q].cards) = 1
        /\ \E c \in CardIDs :
              /\ c # loc[q].cards[1].ID
              /\ RowsOf(reviews, loc[q].userID, c) # {}
              /\ \A r \in RowsOf(reviews, loc[q].userID, c) : r.Repetitions = 0
        /\ failures = 0

\* the IDs of the cards of a list
CardIDsOf(cards) == { cards[i].ID : i \in 1..Len(cards) }

\* the rows of the user for the cards of a list
RowsOfCards(rows, userID, cards) ==
    { r \in rows : r.UserID = userID /\ r.FlashCardID \in CardIDsOf(cards) }

\* both calls have returned without an error and no store call has failed
BothReturned ==
    /\ Succeeded(1, "GetDueCards")
    /\ Succeeded(2, "GetDueCards")
    /\ failures = 0

\* the second call returns the cards of the first and introduces no card
SameResult ==
    /\ CardIDsOf(loc[2].cards) = CardIDsOf(loc[1].cards)
    /\ loc[2].newCards = <<>>

\* the due rows of the user and bank that the first call did not return (the
\* rows the second call has created are not among them)
OtherDueRows ==
    DueRows(reviews, loc[1].userID, loc[1].bankID, now)
        \ (RowsOfCards(reviews, loc[1].userID, loc[1].cards)
              \cup RowsOfCards(reviews, loc[2].userID, loc[2].newCards))

C29_IndexInRange ==
    \A p \in Procs :
        ( /\ cb[p].at \in {"rate", "showFlipped", "show"}
          /\ userStates[cb[p].userID].State = "reviewing" )
        => InRange

\* C30: the cards the session has rated are the first cards of its list in
\* list order, each once, and when no handler is under way the index equals
\* the number of rated cards (it has advanced by one per rated card and not
\* at all for a failed ProcessReview), under every interleaving of the
\* callbacks.
C30_EachCardOnceInOrder ==
    /\ \A i \in 1..Len(rated) :
          /\ i <= Len(reviewState.Cards)
          /\ rated[i] = reviewState.Cards[i].ID
    /\ (\A p \in Procs : cb[p].at \in {"idle", "done"})
          => reviewState.CurrentCard = Len(rated)
====
